---- MODULE Spec2Model ----
(***************************************************************************)
(* Constant-time utility functions of curve25519-dalek (src/subtle.rs).   *)
(*                                                                         *)
(* Every function of the file is modelled by an operator that computes,   *)
(* statement by statement, what the Rust code computes on 8-bit integers. *)
(* One call of one function is one behaviour: a call action picks the     *)
(* arguments, runs the function and records the outcome.  The loop of     *)
(* arrays_equal_ct is modelled one iteration per step.                     *)
(*                                                                         *)
(* u8 values are the integers 0..255, i8 values the integers -128..127.   *)
(* Negation of an i8 overflows on -128: a build with overflow checks      *)
(* panics there, a build without them wraps.  Both builds are modelled;   *)
(* overflow_checks says which one a behaviour runs.  Negation of a u8 is  *)
(* never overflow-checked and wraps modulo 2^8.                            *)
(***************************************************************************)
EXTENDS Integers, Naturals, Sequences, FiniteSets, TLC

VARIABLES
    overflow_checks, \* the build panics on signed overflow
    pc,              \* "idle", "loop" (inside arrays_equal_ct), "done", "panic"
    fn,              \* the function that was called
    this,            \* first scalar argument (a, b, this, self), as passed
    other,           \* second scalar argument
    choice,          \* choice argument of the call
    a,               \* first array argument of arrays_equal_ct
    b,               \* second array argument of arrays_equal_ct
    i,               \* loop index of arrays_equal_ct
    x,               \* accumulator of arrays_equal_ct
    result,          \* returned value, or the value left in *this / *self
    callee_choice,   \* choice that abs_i8 handed to conditional_assign_i8
    callee_mask,     \* mask that conditional_assign_i8 derived from it
    trace            \* the statements executed, with the index they access

vars == <<overflow_checks, pc, fn, this, other, choice, a, b, i, x, result,
          callee_choice, callee_mask, trace>>

---------------------------------------------------------------------------
(* Bounds of the explored inputs of arrays_equal_ct. *)

MaxGap == 3
MaxDelta == 3

(* Program constants. *)

Width == 8
ArrayLen == 32

---------------------------------------------------------------------------
(* 8-bit integer arithmetic. *)

Pow2(n) == 2 ^ n

U8 == 0 .. (Pow2(Width) - 1)
I8 == (0 - Pow2(Width - 1)) .. (Pow2(Width - 1) - 1)

RECURSIVE XorBits(_, _, _)
XorBits(p, q, n) ==
    IF n = 0 THEN 0
    ELSE (((p % 2) + (q % 2)) % 2) + 2 * XorBits(p \div 2, q \div 2, n - 1)

RECURSIVE AndBits(_, _, _)
AndBits(p, q, n) ==
    IF n = 0 THEN 0
    ELSE ((p % 2) * (q % 2)) + 2 * AndBits(p \div 2, q \div 2, n - 1)

RECURSIVE OrBits(_, _, _)
OrBits(p, q, n) ==
    IF n = 0 THEN 0
    ELSE (IF (p % 2) + (q % 2) > 0 THEN 1 ELSE 0)
         + 2 * OrBits(p \div 2, q \div 2, n - 1)

Xor8(p, q) == XorBits(p, q, Width)
And8(p, q) == AndBits(p, q, Width)
Or8(p, q) == OrBits(p, q, Width)
Not8(p) == (Pow2(Width) - 1) - p
Shr8(p, k) == p \div Pow2(k)

(* `as u8` of an i8 and `as i8` of a u8: reinterpretation of the bits. *)
AsU8(v) == v % Pow2(Width)
AsI8(u) == IF u >= Pow2(Width - 1) THEN u - Pow2(Width) ELSE u

(* -x on a u8: wraps, never checked. *)
NegU8(u) == (Pow2(Width) - u) % Pow2(Width)

(* -x on an i8: overflows exactly on the minimum value. *)
NegI8Overflows(v) == v = 0 - Pow2(Width - 1)
NegI8(v) == AsI8(NegU8(AsU8(v)))

(* is_negative() as u8 *)
IsNegative(v) == IF v < 0 THEN 1 ELSE 0

---------------------------------------------------------------------------
(* The functions of subtle.rs. *)

(* bytes_equal_ct with the last fold `x &= x >> 1` left out *)
bytes_equal_ct_no_last_fold(p, q) ==
    LET x0 == Not8(Xor8(p, q))
        x1 == And8(x0, Shr8(x0, 4))
        x2 == And8(x1, Shr8(x1, 2))
    IN  x2

(* x = !(a ^ b); x &= x >> 4; x &= x >> 2; x &= x >> 1; x *)
bytes_equal_ct(p, q) ==
    LET x0 == Not8(Xor8(p, q))
        x1 == And8(x0, Shr8(x0, 4))
        x2 == And8(x1, Shr8(x1, 2))
        x3 == And8(x2, Shr8(x2, 1))
    IN  x3

bytes_equal_ct_trace ==
    << <<"x = !(a ^ b)", 0>>, <<"x &= x >> 4", 0>>, <<"x &= x >> 2", 0>>,
       <<"x &= x >> 1", 0>>, <<"x", 0>> >>

(* byte_is_nonzero with the first fold `x |= x >> 4` left out *)
byte_is_nonzero_no_first_fold(p) ==
    LET x0 == p
        x2 == Or8(x0, Shr8(x0, 2))
        x3 == Or8(x2, Shr8(x2, 1))
    IN  And8(x3, 1)

(* x = b; x |= x >> 4; x |= x >> 2; x |= x >> 1; (x & 1) *)
byte_is_nonzero(p) ==
    LET x0 == p
        x1 == Or8(x0, Shr8(x0, 4))
        x2 == Or8(x1, Shr8(x1, 2))
        x3 == Or8(x2, Shr8(x2, 1))
    IN  And8(x3, 1)

byte_is_nonzero_trace ==
    << <<"x = b", 0>>, <<"x |= x >> 4", 0>>, <<"x |= x >> 2", 0>>,
       <<"x |= x >> 1", 0>>, <<"(x & 1)", 0>> >>

(* the mask taken to be the choice itself, the negation forgotten *)
MaskNotNegated(c) == c

(* let mask: u8 = -choice; *)
Mask(c) == NegU8(c)

(* this ^= mask & (this ^ other); on u8 *)
conditional_assign_u8(t, o, c) ==
    LET mask == Mask(c)
    IN  Xor8(t, And8(mask, Xor8(t, o)))

(* this ^= (mask as i8) & (this ^ other); on i8 *)
conditional_assign_i8(t, o, c) ==
    LET mask == Mask(c)
    IN  AsI8(Xor8(AsU8(t), And8(AsU8(AsI8(mask)), Xor8(AsU8(t), AsU8(o)))))

conditional_assign_trace ==
    << <<"mask = -choice", 0>>, <<"this ^= mask & (this ^ other)", 0>> >>

(* The choice that abs_i8 passes on: &(-mask), mask being the sign flag. *)
abs_i8_choice(v) == NegU8(IsNegative(v))

(* abs_i8: the outcome of a call in a build with (checks) or without      *)
(* overflow checks.  ok is FALSE when the call panics at `-this`.          *)
abs_i8(v, checks) ==
    LET mask == IsNegative(v)
        negative == NegI8(v)
        absolute == v
        c == abs_i8_choice(v)
        head == << <<"mask = this.is_negative() as u8", 0>>,
                   <<"negative = -this", 0>> >>
    IN  IF checks /\ NegI8Overflows(v)
        THEN [ok |-> FALSE, ret |-> 0, c_choice |-> 0, c_mask |-> 0,
              trace |-> head]
        ELSE [ok |-> TRUE,
              ret |-> AsU8(conditional_assign_i8(absolute, negative, c)),
              c_choice |-> c,
              c_mask |-> Mask(c),
              trace |-> head \o << <<"absolute = *this", 0>> >>
                             \o conditional_assign_trace
                             \o << <<"absolute as u8", 0>> >>]

(* conditional_negate with the arguments of conditional_assign exchanged *)
conditional_negate_swapped(s, c, checks) ==
    LET self_neg == NegI8(s)
        head == << <<"self_neg = -(self as &T)", 0>> >>
    IN  IF checks /\ NegI8Overflows(s)
        THEN [ok |-> FALSE, ret |-> s, trace |-> head]
        ELSE [ok |-> TRUE,
              ret |-> conditional_assign_i8(self_neg, s, c),
              trace |-> head \o conditional_assign_trace]

(* The blanket conditional_negate, for T = i8 with                        *)
(* conditional_assign = conditional_assign_i8 and Neg = the i8 negation.  *)
conditional_negate(s, c, checks) ==
    LET self_neg == NegI8(s)
        head == << <<"self_neg = -(self as &T)", 0>> >>
    IN  IF checks /\ NegI8Overflows(s)
        THEN [ok |-> FALSE, ret |-> s, trace |-> head]
        ELSE [ok |-> TRUE,
              ret |-> conditional_assign_i8(s, self_neg, c),
              trace |-> head \o conditional_assign_trace]

(* the accumulation done with xor instead of or: x ^= a[i] ^ b[i] *)
AccumulateXor(acc, p, q) == Xor8(acc, Xor8(p, q))

(* arrays_equal_ct, one loop iteration: x |= a[i] ^ b[i] *)
Accumulate(acc, p, q) == Or8(acc, Xor8(p, q))

(* a loop that is also left at the first mismatch *)
LoopExhaustedOrMismatch(k, acc) == k >= ArrayLen \/ acc # 0

(* for i in 0..32: the loop is left when the range is exhausted *)
LoopExhausted(k, acc) == k >= ArrayLen

---------------------------------------------------------------------------
(* Inputs. *)

Choices == {0, 1}

Indices == 0 .. (ArrayLen - 1)

ZeroArray == [k \in Indices |-> 0]
RampArray == [k \in Indices |-> (8 * k + 1) % Pow2(Width)]

Deltas == (0 .. MaxDelta) \cup {Pow2(Width - 1), Pow2(Width) - 1}

(* p with the bytes at the positions of pos changed by xor with d *)
Changed(p, pos, d) ==
    [k \in Indices |-> IF k \in pos THEN Xor8(p[k], d) ELSE p[k]]

---------------------------------------------------------------------------
(* State machine. *)

Init ==
    /\ overflow_checks \in BOOLEAN
    /\ pc = "idle"
    /\ fn = "none"
    /\ this = 0
    /\ other = 0
    /\ choice = 0
    /\ a = ZeroArray
    /\ b = ZeroArray
    /\ i = 0
    /\ x = 0
    /\ result = 0
    /\ callee_choice = 0
    /\ callee_mask = 0
    /\ trace = << >>

CallBytesEqual ==
    /\ pc = "idle"
    /\ \E p \in U8, q \in U8 :
        /\ fn' = "bytes_equal_ct"
        /\ this' = p
        /\ other' = q
        /\ result' = bytes_equal_ct(p, q)
    /\ trace' = bytes_equal_ct_trace
    /\ pc' = "done"
    /\ UNCHANGED <<overflow_checks, choice, a, b, i, x, callee_choice, callee_mask>>

CallByteIsNonzero ==
    /\ pc = "idle"
    /\ \E p \in U8 :
        /\ fn' = "byte_is_nonzero"
        /\ this' = p
        /\ result' = byte_is_nonzero(p)
    /\ trace' = byte_is_nonzero_trace
    /\ pc' = "done"
    /\ UNCHANGED <<overflow_checks, other, choice, a, b, i, x,
                   callee_choice, callee_mask>>

CallConditionalAssignU8 ==
    /\ pc = "idle"
    /\ \E t \in U8, o \in U8, c \in Choices :
        /\ fn' = "conditional_assign_u8"
        /\ this' = t
        /\ other' = o
        /\ choice' = c
        /\ callee_mask' = Mask(c)
        /\ result' = conditional_assign_u8(t, o, c)
    /\ trace' = conditional_assign_trace
    /\ pc' = "done"
    /\ UNCHANGED <<overflow_checks, a, b, i, x, callee_choice>>

CallConditionalAssignI8 ==
    /\ pc = "idle"
    /\ \E t \in I8, o \in I8, c \in Choices :
        /\ fn' = "conditional_assign_i8"
        /\ this' = t
        /\ other' = o
        /\ choice' = c
        /\ callee_mask' = Mask(c)
        /\ result' = conditional_assign_i8(t, o, c)
    /\ trace' = conditional_assign_trace
    /\ pc' = "done"
    /\ UNCHANGED <<overflow_checks, a, b, i, x, callee_choice>>

CallAbsI8 ==
    /\ pc = "idle"
    /\ \E v \in I8 :
        LET r == abs_i8(v, overflow_checks)
        IN  /\ fn' = "abs_i8"
            /\ this' = v
            /\ result' = r.ret
            /\ callee_choice' = r.c_choice
            /\ callee_mask' = r.c_mask
            /\ trace' = r.trace
            /\ pc' = IF r.ok THEN "done" ELSE "panic"
    /\ UNCHANGED <<overflow_checks, other, choice, a, b, i, x>>

CallConditionalNegate ==
    /\ pc = "idle"
    /\ \E s \in I8, c \in Choices :
        LET r == conditional_negate(s, c, overflow_checks)
        IN  /\ fn' = "conditional_negate"
            /\ this' = s
            /\ choice' = c
            /\ result' = r.ret
            /\ trace' = r.trace
            /\ pc' = IF r.ok THEN "done" ELSE "panic"
    /\ UNCHANGED <<overflow_checks, other, a, b, i, x, callee_choice, callee_mask>>

(* arrays_equal_ct: entry, let mut x: u8 = 0 *)
CallArraysEqual ==
    /\ pc = "idle"
    /\ \E base \in {ZeroArray, RampArray}, p \in Indices, g \in 0 .. MaxGap,
          d \in Deltas :
        /\ a' = base
        /\ b' = Changed(base, {p, (p + g) % ArrayLen}, d)
    /\ fn' = "arrays_equal_ct"
    /\ i' = 0
    /\ x' = 0
    /\ trace' = << <<"x = 0", 0>> >>
    /\ pc' = "loop"
    /\ UNCHANGED <<overflow_checks, this, other, choice, result,
                   callee_choice, callee_mask>>

(* one iteration of the loop body *)
ArraysLoopStep ==
    /\ pc = "loop"
    /\ ~LoopExhausted(i, x)
    /\ x' = Accumulate(x, a[i], b[i])
    /\ i' = i + 1
    /\ trace' = Append(trace, <<"x |= a[i] ^ b[i]", i>>)
    /\ UNCHANGED <<overflow_checks, pc, fn, this, other, choice, a, b, result,
                   callee_choice, callee_mask>>

(* after the loop: bytes_equal_ct(x, 0) *)
ArraysReturn ==
    /\ pc = "loop"
    /\ LoopExhausted(i, x)
    /\ result' = bytes_equal_ct(x, 0)
    /\ trace' = trace \o bytes_equal_ct_trace
    /\ pc' = "done"
    /\ UNCHANGED <<overflow_checks, fn, this, other, choice, a, b, i, x,
                   callee_choice, callee_mask>>

Next ==
    \/ CallBytesEqual
    \/ CallByteIsNonzero
    \/ CallConditionalAssignU8
    \/ CallConditionalAssignI8
    \/ CallAbsI8
    \/ CallConditionalNegate
    \/ CallArraysEqual
    \/ ArraysLoopStep
    \/ ArraysReturn

Spec == Init /\ [][Next]_vars

(* Calls of arrays_equal_ct alone. *)
ArraysNext ==
    \/ CallArraysEqual
    \/ ArraysLoopStep
    \/ ArraysReturn

ArraysSpec == Init /\ [][ArraysNext]_vars

---------------------------------------------------------------------------
(* Properties. *)

Returned(f) == pc = "done" /\ fn = f

Abs(v) == IF v >= 0 THEN v ELSE 0 - v

(* C1: for every i8 value v, abs_i8(v) is the absolute value of v as a   *)
(* u8: v when v >= 0, -v when v < 0, 128 for -128.                        *)
C1_AbsIsUnsignedAbs ==
    Returned("abs_i8") => result = Abs(this)

(* C2: conditional_assign_u8 and conditional_assign_i8 leave this equal  *)
(* to other when choice = 1 and unchanged when choice = 0, with           *)
(* mask = 0 - choice modulo 2^8, which is 0x00 or 0xFF.                   *)
C2_ConditionalAssignSelects ==
    (Returned("conditional_assign_u8") \/ Returned("conditional_assign_i8")) =>
        /\ choice \in {0, 1}
        /\ callee_mask = IF choice = 1 THEN 255 ELSE 0
        /\ choice = 1 => result = other
        /\ choice = 0 => result = this

C2_Witness ==
    /\ Returned("conditional_assign_i8")
    /\ choice = 1
    /\ this = 0 - 5
    /\ other = 77
    /\ result = 77

(* C3: bytes_equal_ct(a, b) is exactly 1 when a = b and exactly 0        *)
(* otherwise.                                                              *)
C3_BytesEqualExact ==
    Returned("bytes_equal_ct") =>
        result = IF this = other THEN 1 ELSE 0

C3_Witness ==
    /\ Returned("bytes_equal_ct")
    /\ this = 255
    /\ other = 254
    /\ result = 0

(* C4: arrays_equal_ct(a, b) is 1 if and only if a[k] = b[k] for every   *)
(* index k of the 32, and 0 otherwise; a single changed byte gives 0.     *)
C4_ArraysEqualIff ==
    Returned("arrays_equal_ct") =>
        /\ (result = 1) <=> (\A k \in Indices : a[k] = b[k])
        /\ result \in {0, 1}

C4_Witness ==
    /\ Returned("arrays_equal_ct")
    /\ Cardinality({k \in Indices : a[k] # b[k]}) = 1
    /\ a[ArrayLen - 1] # b[ArrayLen - 1]
    /\ result = 0

C6_ConditionalNegate ==
    Returned("conditional_negate") =>
        /\ choice = 1 => (result + this) % Pow2(Width) = 0
        /\ choice = 0 => result = this
        /\ result \in I8
        /\ Len(trace) > 0
        /\ trace[1] = <<"self_neg = -(self as &T)", 0>>

C6_Witness ==
    /\ Returned("conditional_negate")
    /\ choice = 1
    /\ this = 5
    /\ result = 0 - 5

(* The statements a function executes on the all-zero input. *)
ReferenceTrace(f) ==
    CASE f = "bytes_equal_ct" -> bytes_equal_ct_trace
      [] f = "byte_is_nonzero" -> byte_is_nonzero_trace
      [] f = "conditional_assign_u8" -> conditional_assign_trace
      [] f = "conditional_assign_i8" -> conditional_assign_trace
      [] f = "abs_i8" -> abs_i8(0, overflow_checks).trace
      [] f = "conditional_negate" -> conditional_negate(0, 0, overflow_checks).trace
      [] f = "arrays_equal_ct" ->
            << <<"x = 0", 0>> >>
            \o [k \in 1 .. ArrayLen |-> <<"x |= a[i] ^ b[i]", k - 1>>]
            \o bytes_equal_ct_trace
      [] OTHER -> << >>

(* C7: for every function, the statements executed and the locations     *)
(* accessed are the same for any two inputs: a finished call has executed *)
(* what the call on the all-zero input executes.                           *)
C7_SameStepsForAllInputs ==
    pc \in {"done", "panic"} => trace = ReferenceTrace(fn)

(* C8: every function is total over its input domain: a call never fails *)
(* and returns a plain 8-bit value.                                        *)
C8_NeverFails ==
    /\ pc # "panic"
    /\ pc = "done" => result \in U8 \cup I8

C9_LoopInvariant ==
    fn = "arrays_equal_ct" =>
        /\ i \in 0 .. ArrayLen
        /\ (x = 0) <=> (\A k \in 0 .. (i - 1) : a[k] = b[k])
        /\ Len(trace) = 1 + i + (IF pc = "done" THEN Len(bytes_equal_ct_trace) ELSE 0)
        /\ \A k \in 1 .. i : trace[1 + k] = <<"x |= a[i] ^ b[i]", k - 1>>
        /\ pc = "done" => (i = ArrayLen /\ result = bytes_equal_ct(x, 0))

C9_LoopProgress ==
    pc = "loop" =>
        \/ i < ArrayLen /\ pc' = "loop" /\ i' = i + 1
        \/ i = ArrayLen /\ pc' = "done" /\ i' = i

(* C9: arrays_equal_ct returns after exactly 32 iterations, whatever the *)
(* arrays hold: every step inside the function is an iteration that       *)
(* advances the index by one, below 32, or the return, at 32 and nowhere  *)
(* else; after the first i iterations x is 0 if and only if a and b agree *)
(* on the indices below i; the result is bytes_equal_ct(x, 0).             *)
C9_ThirtyTwoIterations ==
    /\ []C9_LoopInvariant
    /\ [][C9_LoopProgress]_vars

C9_Witness ==
    /\ Returned("arrays_equal_ct")
    /\ i = ArrayLen
    /\ a[0] # b[0]
    /\ x # 0

(* C10: the choice that abs_i8 passes to conditional_assign_i8 is in     *)
(* {0, 1}, 1 when the input is negative and 0 otherwise, so that the      *)
(* mask derived from it is 0x00 or 0xFF.                                   *)
C10_AbsPassesChoice ==
    Returned("abs_i8") =>
        /\ callee_choice \in {0, 1}
        /\ callee_choice = IsNegative(this)
        /\ callee_mask \in {0, 255}

====
